---- MODULE Spec2Model ----
(***************************************************************************)
(* RugosityIndex (src/pytopocomplexity/pyrugosity.py): the windowed        *)
(* surface-area estimator, the rugosity filter, the sequential and the     *)
(* chunked grid traversal of calculate_rugosity and the fringe step of     *)
(* analyze.                                                                *)
(*                                                                         *)
(* Floating point.  The source computes in IEEE-754 binary64 (numpy        *)
(* float64): every operation returns the exact result rounded to nearest,  *)
(* ties to even.  The model keeps that arithmetic, operation by operation  *)
(* and in the source's order, on a binary format of MantBits significand   *)
(* bits (binary64 has 53) and unbounded exponent; a number is <<m, e>>,    *)
(* standing for m * 2^e, with 2^(MantBits-1) <= |m| < 2^MantBits or m = 0. *)
(* Overflow to infinity and NaN need magnitudes near 1e77 and do not       *)
(* occur on the inputs drawn here.                                         *)
(***************************************************************************)
EXTENDS Integers, Sequences, FiniteSets, TLC

\* Significand width of the modelled floating-point format.
MantBits == 13

(***************************************************************************)
(* Floating-point arithmetic (round to nearest, ties to even).             *)
(***************************************************************************)
\* The floating-point numbers <<m, e>>.
Float == Int \X Int

Abs(n) == IF n < 0 THEN -n ELSE n

Sign(n) == IF n < 0 THEN -1 ELSE 1

\* Number of bits of n >= 0.
BitLen(n) == Cardinality({k \in 0..30 : 2^k <= n})

\* |m| * 2^e, |m| of more than MantBits bits, rounded to nearest, ties to
\* even, after dropping the sh low bits of |m|.
RoundTo(m, e, sh) ==
    LET q  == Abs(m) \div 2^sh
        r  == Abs(m) % 2^sh
        h  == 2^(sh - 1)
        up == IF r > h \/ (r = h /\ q % 2 = 1) THEN q + 1 ELSE q
    IN  IF up = 2^MantBits
        THEN <<Sign(m) * 2^(MantBits - 1), e + sh + 1>>
        ELSE <<Sign(m) * up, e + sh>>

\* m * 2^e for m # 0 of L bits, normalised or rounded to MantBits bits.
Normalise(m, e, L) ==
    IF L <= MantBits
    THEN <<m * 2^(MantBits - L), e - (MantBits - L)>>
    ELSE RoundTo(m, e, L - MantBits)

\* The exact value m * 2^e rounded to MantBits bits.
FRound[m \in Int, e \in Int] ==
    IF m = 0 THEN <<0, 0>> ELSE Normalise(m, e, BitLen(Abs(m)))

FInt[n \in Int] == FRound[n, 0]

FNeg[x \in Float] == <<-x[1], x[2]>>

FAbs[x \in Float] == <<Abs(x[1]), x[2]>>

\* x * 2^k, exact.
FScale[x \in Float, k \in Int] == IF x[1] = 0 THEN x ELSE <<x[1], x[2] + k>>

FMul[x \in Float, y \in Float] == FRound[x[1] * y[1], x[2] + y[2]]

\* big + small for big's exponent the larger one.
AddAligned(big, small) ==
    IF big[2] - small[2] > MantBits + 2
    THEN big   \* |small| is below an eighth of big's last place
    ELSE FRound[big[1] * 2^(big[2] - small[2]) + small[1], small[2]]

FAdd[x \in Float, y \in Float] ==
    IF x[1] = 0 THEN y
    ELSE IF y[1] = 0 THEN x
    ELSE IF x[2] >= y[2] THEN AddAligned(x, y) ELSE AddAligned(y, x)

FSub[x \in Float, y \in Float] == FAdd[x, FNeg[y]]

\* One base-32 digit of a square root: r plus the largest multiple a * b,
\* a < 32, with (r + a * b)^2 <= n.
SqrtDigit(n, r, b) ==
    r + b * Cardinality({a \in 1..31 : r + b * a <= n \div (r + b * a)})

\* floor(sqrt(n)) for 0 <= n < 2^30.
Isqrt(n) == SqrtDigit(n, SqrtDigit(n, SqrtDigit(n, 0, 1024), 32), 1)

\* n > 0 scaled by the power of 4 that gives it at least 2*MantBits+1 bits.
Widen(n, e) ==
    LET L == BitLen(n)
        t == IF L >= 2 * MantBits + 1 THEN 0 ELSE (2 * MantBits + 2 - L) \div 2
    IN  <<n * 4^t, e - 2 * t>>

\* The root r of the widened radicand w, with the sticky bit, rounded.
SqrtRound(w, r, sticky) ==
    FRound[2 * r + (IF r * r # w[1] \/ sticky THEN 1 ELSE 0), (w[2] \div 2) - 1]

SqrtWide(w, sticky) == SqrtRound(w, Isqrt(w[1]), sticky)

\* sqrt(n * 2^e) rounded, for an exact integer n >= 0 and even e; sticky
\* says that bits of the radicand below n were dropped.
SqrtInt[n \in Int, e \in Int, sticky \in BOOLEAN] ==
    IF n = 0 THEN <<0, 0>> ELSE SqrtWide(Widen(n, e), sticky)

FSqrt[x \in Float] ==
    IF x[2] % 2 = 0 THEN SqrtInt[x[1], x[2], FALSE]
    ELSE SqrtInt[2 * x[1], x[2] - 1, FALSE]

\* x # 0 with the trailing zero bits of m moved into the exponent.
Strip(x) ==
    LET tz == Cardinality({k \in 1..30 : x[1] % 2^k = 0})
    IN  <<x[1] \div 2^tz, x[2] + tz>>

\* sqrt(hi^2 + lo^2) with the tt low bit pairs of lo^2 dropped (sticky).
HypotSum(hi, lo, d, tt) ==
    SqrtInt[hi[1] * hi[1] * 4^(d - tt) + ((lo[1] * lo[1]) \div 4^tt),
            2 * lo[2] + 2 * tt,
            (lo[1] * lo[1]) % 4^tt # 0]

\* t low bit pairs of the sum are dropped when it would not fit 29 bits.
HypotDrop(hi, lo, d, t) == HypotSum(hi, lo, d, IF t > d THEN d ELSE t)

\* hypot of stripped hi, lo > 0, hi's exponent the larger one.
HypotAligned(hi, lo, d, bits) ==
    HypotDrop(hi, lo, d, IF 2 * d + 2 * bits > 29
                         THEN (2 * d + 2 * bits - 28) \div 2 ELSE 0)

HypotOrdered(a, b) ==
    IF a[2] >= b[2] THEN HypotAligned(a, b, a[2] - b[2], BitLen(a[1]))
    ELSE HypotAligned(b, a, b[2] - a[2], BitLen(b[1]))

\* hypot(x, y) = sqrt(x^2 + y^2) rounded once.
FHypot[x \in Float, y \in Float] ==
    IF x[1] = 0 THEN FAbs[y]
    ELSE IF y[1] = 0 THEN FAbs[x]
    ELSE HypotOrdered(Strip(FAbs[x]), Strip(FAbs[y]))

\* |x| * 2^(MantBits + 2) divided by |y|, with the sticky bit, rounded.
DivRound(x, y, n) ==
    FRound[Sign(x[1]) * Sign(y[1])
              * (2 * (n \div Abs(y[1])) + (IF n % Abs(y[1]) # 0 THEN 1 ELSE 0)),
           x[2] - y[2] - (MantBits + 2) - 1]

FDiv[x \in Float, y \in Float] ==
    IF x[1] = 0 THEN <<0, 0>> ELSE DivRound(x, y, Abs(x[1]) * 2^(MantBits + 2))

\* x <= y
FLeq(x, y) == FSub[x, y][1] <= 0

FOne == FInt[1]

(***************************************************************************)
(* compute_triangle_areas and rugosity_filter.  A window is the sequence   *)
(* of its W*W elevation samples in row-major order (values[k+1] here is    *)
(* values[k] of the source); elevations and cell_size are integers of the  *)
(* model's unit, converted to floating point where the code reads them.    *)
(***************************************************************************)
\* np.sqrt(2)
Sqrt2 == FSqrt[FInt[2]]

\* Lines 125-126: the fallback to the planar area.
Fallback[area \in Float, cell_size \in Float] ==
    IF area[1] <= 0
    THEN FScale[FMul[cell_size, cell_size], -1]   \* cell_size ** 2 / 2
    ELSE area

\* Line 122: Heron's formula with the absolute value under the root.
HeronRoot[s \in Float, orthogonal_edges \in Float, diagonal_edges \in Float, adjacent_edges \in Float] ==
    FSqrt[FAbs[FMul[FMul[FMul[s, FSub[s, orthogonal_edges]],
                         FSub[s, diagonal_edges]],
                    FSub[s, adjacent_edges]]]]

\* Lines 121-126: the area of the triangle of the three edges.
HeronArea[orthogonal_edges \in Float, diagonal_edges \in Float, adjacent_edges \in Float, cell_size \in Float] ==
    Fallback[HeronRoot[FScale[FAdd[FAdd[orthogonal_edges, diagonal_edges],
                                   adjacent_edges], -1],
                       orthogonal_edges, diagonal_edges, adjacent_edges],
             cell_size]

\* Lines 113-126: one swept cell's triangle area; c, v, w are the centre,
\* values[idx] and values[idx + 1], corner_dist is np.sqrt(2) * cell_size.
TriangleArea(c, v, w, cell_size) ==
    HeronArea[FScale[FHypot[FSub[c, v], cell_size], -1],
              FScale[FHypot[FSub[c, v], FMul[Sqrt2, cell_size]], -1],
              FScale[FHypot[FSub[v, w], cell_size], -1],
              cell_size]

\* Lines 110-126: the areas of the swept cells, k counting them in the order
\* of the loops over i, j in range(window_size - 1); idx = i * ws + j.
SweptAreas(values, cell_size, ws) ==
    [k \in 0..((ws - 1) * (ws - 1) - 1) |->
        TriangleArea(FInt[values[(Len(values) \div 2) + 1]],
                     FInt[values[(k \div (ws - 1)) * ws + (k % (ws - 1)) + 1]],
                     FInt[values[(k \div (ws - 1)) * ws + (k % (ws - 1)) + 2]],
                     cell_size)]

\* Line 128 under the loops of lines 110-111: total_surface_area += area * 8
\* for the swept cells k, k + 1, ... in the loops' order.
RECURSIVE Accumulate(_, _, _)
Accumulate(areas, k, total) ==
    IF k \notin DOMAIN areas THEN total
    ELSE Accumulate(areas, k + 1, FAdd[total, FScale[areas[k], 3]])

\* Lines 106-130; window_size = int(np.sqrt(len(values))).
compute_triangle_areas(values, cell_size) ==
    Accumulate(SweptAreas(values, FInt[cell_size], Isqrt(Len(values))),
               0, <<0, 0>>)

\* Line 168: ((window_size - 1) * cell_size) ** 2, over side * side.
Square(side) == FMul[side, side]

\* The ratio taken over the whole window's side, window_size * cell_size.
rugosity_filter_full_side(values, cell_size, ws) ==
    FDiv[compute_triangle_areas(values, cell_size),
         Square(FMul[FInt[ws], FInt[cell_size]])]

\* Lines 166-170: surface_area / planar_area.
rugosity_filter(values, cell_size, ws) ==
    FDiv[compute_triangle_areas(values, cell_size),
         Square(FMul[FInt[ws - 1], FInt[cell_size]])]

(***************************************************************************)
(* Grids.  A grid of shape (R, C) is a function on 0..R-1 of functions on  *)
(* 0..C-1, indexed as the source's arrays are.  An output cell holds a     *)
(* floating-point number or NaN.                                           *)
(***************************************************************************)
None == <<>>

\* np.nan, kept apart from every number (zero is <<0, 0>>).
NaN == <<0, 1>>

Rows(A) == Cardinality(DOMAIN A)

Cols(A) == Cardinality(DOMAIN A[0])

Cells(A) == (0..(Rows(A) - 1)) \X (0..(Cols(A) - 1))

\* scipy.ndimage mode='nearest': an index outside 0..n-1 reads the edge sample.
NearestIndex(i, n) == IF i < 0 THEN 0 ELSE IF i > n - 1 THEN n - 1 ELSE i

\* dask boundary='reflect': the k-th sample beyond an edge is the sample
\* k - 1 cells inside it (d c b a | a b c d | d c b a).
ReflectIndex(i, n) == IF i < 0 THEN -i - 1 ELSE IF i > n - 1 THEN 2 * n - 1 - i ELSE i

\* The size x size footprint centred on (r, c) of A, flattened in row-major
\* order as generic_filter hands it to its callback, mode='nearest'.
Footprint(A, r, c, size) ==
    LET h == size \div 2
    IN  [k \in 1..(size * size) |->
            A[NearestIndex(r - h + ((k - 1) \div size), Rows(A))]
             [NearestIndex(c - h + ((k - 1) % size), Cols(A))]]

\* Line 174-179: the block map_overlap hands to the mapped function for the
\* chunk of rows r0..r1 and columns c0..c1: the chunk and depth more samples
\* on every side, taken from the grid, or by reflection beyond the grid.
OverlapBlock(A, r0, r1, c0, c1, depth) ==
    [i \in 0..(r1 - r0 + 2 * depth) |->
        [j \in 0..(c1 - c0 + 2 * depth) |->
            A[ReflectIndex(r0 - depth + i, Rows(A))]
             [ReflectIndex(c0 - depth + j, Cols(A))]]]

\* Line 174: the chunk boundaries along an axis of n samples cut into chunks
\* of ch samples (the last one shorter), as <<first, last>> pairs; map_overlap
\* rechunks so that no chunk is smaller than depth, the short last chunk
\* taking samples from the one before it.
AxisChunks(n, ch, depth) ==
    LET k    == (n + ch - 1) \div ch
        last == n - (k - 1) * ch
        uniform == {<<a * ch, IF a = k - 1 THEN n - 1 ELSE a * ch + ch - 1>> :
                        a \in 0..(k - 1)}
    IN  IF k = 1 \/ last >= depth THEN uniform
        ELSE IF ch > 2 * depth - last
        THEN {<<a * ch, a * ch + ch - 1>> : a \in 0..(k - 3)}
                \cup {<<(k - 2) * ch, n - depth - 1>>, <<n - depth, n - 1>>}
        ELSE {<<a * ch, a * ch + ch - 1>> : a \in 0..(k - 3)}
                \cup {<<(k - 2) * ch, n - 1>>}

\* The chunks of the grid: <<r0, r1, c0, c1>>.
Tiles(A, cz, depth) ==
    {<<rr[1], rr[2], cc[1], cc[2]>> :
        rr \in AxisChunks(Rows(A), cz[1], depth),
        cc \in AxisChunks(Cols(A), cz[2], depth)}

\* The fringe one cell narrower, window_size // 2.
FringeNarrow(res, ws) ==
    LET fringeval == ws \div 2
    IN  [r \in DOMAIN res |->
            [c \in DOMAIN res[r] |->
                IF \/ r < fringeval
                   \/ c < fringeval
                   \/ r >= Rows(res) - fringeval
                   \/ c >= Cols(res) - fringeval
                THEN NaN ELSE res[r][c]]]

\* Lines 248-253: the edges replaced by NaN.
Fringe(res, ws) ==
    LET fringeval == ws \div 2 + 1
    IN  [r \in DOMAIN res |->
            [c \in DOMAIN res[r] |->
                IF \/ r < fringeval
                   \/ c < fringeval
                   \/ r >= Rows(res) - fringeval
                   \/ c >= Cols(res) - fringeval
                THEN NaN ELSE res[r][c]]]

\* The validation without its parity test.
ValidWindowNoParity(ws) == ~(ws < 3)

\* Lines 163-164.
ValidWindow(ws) == ~(ws % 2 = 0 \/ ws < 3)

(***************************************************************************)
(* Bounds and inputs.                                                      *)
(***************************************************************************)
\* Largest grid dimension.
MaxDim == 7

\* Largest window_size handed to the constructor (1..MaxWindow, so even
\* sizes and sizes below 3 are drawn too).
MaxWindow == 5

\* Largest cell size.
MaxCellSize == 3

\* Height of the spike of the spiked terrain.
SpikeHeight == 7

\* Elevation of the flat terrain.
FlatElevation == 10

Dims == {MaxDim - 5, MaxDim - 2, MaxDim}

Shapes == Dims \X Dims

CellSizes == {1, MaxCellSize}

ChunkSizes == {<<4, 4>>, <<8, 8>>}

Terrains == {"flat", "spike", "rough"}

\* The elevation grids drawn: constant elevation, a single spike at the
\* middle of a plain, and a rough surface.
Terrain(kind, R, C) ==
    [r \in 0..(R - 1) |->
        [c \in 0..(C - 1) |->
            CASE kind = "flat"  -> FlatElevation
              [] kind = "spike" ->
                    IF r = R \div 2 /\ c = C \div 2 THEN SpikeHeight ELSE 0
              [] OTHER -> (3 * r * r + 5 * c * c + r * c) % 8]]

(***************************************************************************)
(* The state of a RugosityIndex object and of its analyze call.            *)
(***************************************************************************)
VARIABLES
    window_size,       \* self.window_size
    Z,                 \* self.Z
    cell_size,         \* gridsize, the cell_size of calculate_rugosity
    chunk_processing,  \* self.chunk_processing
    chunksize,         \* self.chunksize
    result,            \* self.result
    pc,                \* where the analyze call stands
    raw,               \* the array calculate_rugosity fills and returns
    pbar,              \* pbar.n of the sequential run's tqdm bar
    computed,          \* the chunks whose block has been computed
    writes             \* how many times each cell of raw has been written

vars == <<window_size, Z, cell_size, chunk_processing, chunksize, result, pc,
          raw, pbar, computed, writes>>

\* Lines 64-72.
Init ==
    /\ window_size \in 1..MaxWindow
    /\ Z = None
    /\ cell_size = 0
    /\ chunk_processing = TRUE
    /\ chunksize = <<0, 0>>
    /\ result = None
    /\ pc = "idle"
    /\ raw = None
    /\ pbar = 0
    /\ computed = {}
    /\ writes = None

\* Lines 186-187: total_pixels.
TotalPixels == Rows(Z) * Cols(Z)

Zeros(A, v) == [r \in DOMAIN A |-> [c \in DOMAIN A[r] |-> v]]

\* Lines 166-170 and 191: the callback's value at cell (r, c) of array A.
FilterAt(A, r, c) ==
    rugosity_filter(Footprint(A, r, c, window_size), cell_size, window_size)

\* Lines 175-179: the mapped function's value at grid cell (r, c) of chunk t,
\* computed on the chunk's block (the chunk and depth samples around it).
TileCell(t, r, c) ==
    LET depth == window_size \div 2
    IN  FilterAt(OverlapBlock(Z, t[1], t[2], t[3], t[4], depth),
                 r - t[1] + depth, c - t[3] + depth)

\* A mapped block with no overlap: the chunk alone.
TileOutputNoOverlap(t) ==
    [cell \in (t[1]..t[2]) \X (t[3]..t[4]) |->
        FilterAt(OverlapBlock(Z, t[1], t[2], t[3], t[4], 0),
                 cell[1] - t[1], cell[2] - t[3])]

\* A mapped block written back with its overlap left on.
TileOutputUntrimmed(t) ==
    LET depth == window_size \div 2
    IN  [cell \in {x \in Cells(Z) : /\ x[1] >= t[1] - depth /\ x[1] <= t[2] + depth
                                    /\ x[2] >= t[3] - depth /\ x[2] <= t[4] + depth}
            |-> TileCell(t, cell[1], cell[2])]

\* Lines 175-179: the part of the mapped block's output that map_overlap keeps
\* for chunk t (depth cells are trimmed from every side of the block).
TileOutput(t) ==
    [cell \in (t[1]..t[2]) \X (t[3]..t[4]) |-> TileCell(t, cell[1], cell[2])]

\* Lines 222-246 up to the first window: analyze starts on a raster read
\* from input_dir; calculate_rugosity validates window_size and raises, or
\* starts one of the two traversals.
Analyze(grid, gridsize, cp, cz) ==
    /\ pc = "idle"
    /\ chunk_processing' = cp
    /\ chunksize' = cz
    /\ Z' = grid
    /\ cell_size' = gridsize
    /\ IF ~ValidWindow(window_size)
       THEN /\ pc' = "error"
            /\ UNCHANGED <<raw, writes>>
       ELSE /\ pc' = IF cp THEN "chunked" ELSE "sequential"
            /\ raw' = Zeros(grid, <<0, 0>>)
            /\ writes' = Zeros(grid, 0)
    /\ UNCHANGED <<window_size, result, pbar, computed>>

\* Lines 191/183 and 246-253: the traversal leaves the array filled so far;
\* when it has finished, calculate_rugosity returns the array and analyze
\* stores it and replaces its edges by NaN.
Store(filled, finished) ==
    /\ raw' = filled
    /\ IF finished
       THEN /\ result' = Fringe(filled, window_size)
            /\ pc' = "done"
       ELSE UNCHANGED <<result, pc>>

\* The sequential step with the bar advanced twice per call of the callback.
FilterCellTwice ==
    /\ pc = "sequential"
    /\ pbar < TotalPixels
    /\ pbar' = pbar + 2
    /\ writes' = [writes EXCEPT ![pbar \div Cols(Z)][pbar % Cols(Z)] = @ + 1]
    /\ Store([raw EXCEPT ![pbar \div Cols(Z)][pbar % Cols(Z)] =
                    FilterAt(Z, pbar \div Cols(Z), pbar % Cols(Z))],
             pbar + 2 >= TotalPixels)
    /\ UNCHANGED <<window_size, Z, cell_size, chunk_processing, chunksize,
                   computed>>

\* Lines 188-191: generic_filter calls progress_filter on the next cell in
\* row-major order, cell (pbar // C, pbar % C); after the last cell
\* calculate_rugosity returns.
FilterCell ==
    /\ pc = "sequential"
    /\ pbar < TotalPixels
    /\ pbar' = pbar + 1
    /\ writes' = [writes EXCEPT ![pbar \div Cols(Z)][pbar % Cols(Z)] = @ + 1]
    /\ Store([raw EXCEPT ![pbar \div Cols(Z)][pbar % Cols(Z)] =
                    FilterAt(Z, pbar \div Cols(Z), pbar % Cols(Z))],
             pbar + 1 = TotalPixels)
    /\ UNCHANGED <<window_size, Z, cell_size, chunk_processing, chunksize,
                   computed>>

\* Array A with the cells of out written over it.
Paste(A, out) ==
    [r \in DOMAIN A |-> [c \in DOMAIN A[r] |->
        IF <<r, c>> \in DOMAIN out THEN out[<<r, c>>] ELSE A[r][c]]]

\* The write counts after the cells of out have been written.
Touch(count, out) ==
    [r \in DOMAIN count |-> [c \in DOMAIN count[r] |->
        IF <<r, c>> \in DOMAIN out THEN count[r][c] + 1 ELSE count[r][c]]]

\* Lines 175-183: a computed block's kept cells go into the assembled array.
WriteTile(out, finished) ==
    /\ writes' = Touch(writes, out)
    /\ Store(Paste(raw, out), finished)

\* Lines 174-183: one chunk's block is computed, in any order; when all are,
\* compute() returns the assembled array.
ComputeTile(t) ==
    /\ pc = "chunked"
    /\ t \in Tiles(Z, chunksize, window_size \div 2) \ computed
    /\ computed' = computed \cup {t}
    /\ WriteTile(TileOutput(t),
                 computed \cup {t} = Tiles(Z, chunksize, window_size \div 2))
    /\ UNCHANGED <<window_size, Z, cell_size, chunk_processing, chunksize, pbar>>

Next ==
    \/ \E shape \in Shapes, kind \in Terrains, gridsize \in CellSizes,
          cp \in BOOLEAN, cz \in ChunkSizes :
            Analyze(Terrain(kind, shape[1], shape[2]), gridsize, cp, cz)
    \/ FilterCell
    \/ /\ pc = "chunked"
       /\ \E t \in Tiles(Z, chunksize, window_size \div 2) : ComputeTile(t)

Spec == Init /\ [][Next]_vars

(***************************************************************************)
(* Properties.                                                             *)
(***************************************************************************)
\* Cell (r, c) lies in the border of width window_size // 2 + 1.
InFringe(r, c) ==
    LET f == window_size \div 2 + 1
    IN  r < f \/ r >= Rows(Z) - f \/ c < f \/ c >= Cols(Z) - f

\* Cell (r, c) is at least window_size // 2 cells away from all four edges.
AwayFromEdges(r, c) ==
    LET h == window_size \div 2
    IN  r >= h /\ r <= Rows(Z) - 1 - h /\ c >= h /\ c <= Cols(Z) - 1 - h

IsConstant(A) == \A cell \in Cells(A) : A[cell[1]][cell[2]] = A[0][0]

\* A chunked, or a sequential, analyze call has returned.
ChunkedDone == pc = "done" /\ chunk_processing

SequentialDone == pc = "done" /\ ~chunk_processing

\* Eight units in the last place of 1.0.
Tolerance == FRound[1, 3 - MantBits]

\* The grid has at least window_size rows and columns.
FitsWindow == Rows(Z) >= window_size /\ Cols(Z) >= window_size

\* C1: after analyze completes, under either strategy, the output has the
\* shape of the input and every cell of the border of width W // 2 + 1 is NaN.
C1_FringeIsNaN ==
    pc = "done" =>
        /\ DOMAIN result = DOMAIN Z
        /\ \A r \in DOMAIN Z : DOMAIN result[r] = DOMAIN Z[r]
        /\ \A cell \in Cells(Z) :
              InFringe(cell[1], cell[2]) => result[cell[1]][cell[2]] = NaN

C1_Witness ==
    /\ ChunkedDone
    /\ Rows(Z) = MaxDim /\ Cols(Z) = MaxDim - 2
    /\ window_size = 3
    /\ result[1][2] = NaN
    /\ result[2][2] # NaN

\* C2 (as the specification states it): the grid calculate_rugosity returns
\* under chunk_processing equals, cell for cell, the grid the sequential
\* traversal returns for the same input (grids of at least W rows and columns).
C2_ChunkedEqualsSequential ==
    ChunkedDone /\ FitsWindow =>
        \A cell \in Cells(Z) : raw[cell[1]][cell[2]] = FilterAt(Z, cell[1], cell[2])

\* C3: with window_size even or below 3 the call ends in the error before
\* any window is evaluated: the progress count is zero, no grid has been
\* produced or written, and the stored result is what it was before the call.
C3_InvalidWindowFailsFirst ==
    (window_size % 2 = 0 \/ window_size < 3) /\ pc # "idle" =>
        /\ pc = "error"
        /\ pbar = 0
        /\ computed = {}
        /\ raw = None /\ writes = None
        /\ result = None

C3_Witness ==
    /\ pc = "error"
    /\ window_size = 4
    /\ Z # None /\ Rows(Z) = MaxDim
    /\ pbar = 0 /\ result = None

\* C4 (as the specification states it): on a grid with fewer than W rows or
\* fewer than W columns, W valid, the call ends in an error before any window
\* is evaluated and no output grid is produced.
C4_SmallGridFails ==
    /\ pc # "idle"
    /\ window_size % 2 = 1 /\ window_size >= 3
    /\ (Rows(Z) < window_size \/ Cols(Z) < window_size)
    => /\ pc = "error"
       /\ pbar = 0 /\ computed = {}
       /\ raw = None /\ result = None

\* C5 (as the specification states it): on a grid of constant elevation every
\* output cell outside the fringe is exactly 1.0.
C5_FlatIsExactlyOne ==
    pc = "done" /\ IsConstant(Z) =>
        \A cell \in Cells(Z) :
            ~InFringe(cell[1], cell[2]) => result[cell[1]][cell[2]] = FOne

\* C5 (amended): on a grid of constant elevation every output cell outside
\* the fringe equals 1.0 up to the rounding of the floating-point operations:
\* it is within eight units in the last place of 1.0.
C5_FlatIsOneWithinRounding ==
    pc = "done" /\ IsConstant(Z) =>
        \A cell \in Cells(Z) :
            ~InFringe(cell[1], cell[2]) =>
                FLeq(FAbs[FSub[result[cell[1]][cell[2]], FOne]], Tolerance)

\* The 7x7 scenario: cell_size 1, window_size 3, fringe width 2, and an
\* interior cell holding 1 - 3 * 2^(-MantBits).
C5_Witness ==
    /\ SequentialDone
    /\ IsConstant(Z) /\ Rows(Z) = 7 /\ Cols(Z) = 7
    /\ cell_size = 1 /\ window_size = 3
    /\ result[1][1] = NaN
    /\ result[2][2] = <<2^MantBits - 3, -MantBits>>

\* C6 (as the specification states it, rounding allowed for): every ratio the
\* filter has returned, on a grid of at least W rows and columns, is at least
\* 1.0.
C6_RatioAtLeastOne ==
    Z # None /\ FitsWindow =>
        \A cell \in Cells(Z) :
            raw # None /\ writes[cell[1]][cell[2]] > 0 =>
                FLeq(FSub[FOne, Tolerance], raw[cell[1]][cell[2]])

\* The core of chunk t: the cells map_overlap keeps of its block.
InCore(t, r, c) == r >= t[1] /\ r <= t[2] /\ c >= t[3] /\ c <= t[4]

\* C7: the chunks' cores partition the grid, every cell of a computed chunk
\* has been written exactly once and no other cell has been written, and the
\* assembled grid is, whatever the order the chunks were computed in, the
\* grid of each chunk's own values.
C7_TilesPartitionOutput ==
    pc = "chunked" \/ ChunkedDone =>
        LET tiles == Tiles(Z, chunksize, window_size \div 2)
        IN  /\ \A cell \in Cells(Z) :
                  /\ Cardinality({t \in tiles : InCore(t, cell[1], cell[2])}) = 1
                  /\ writes[cell[1]][cell[2]] =
                        IF \E t \in computed : InCore(t, cell[1], cell[2])
                        THEN 1 ELSE 0
            /\ pc = "done" =>
                  /\ computed = tiles
                  /\ \A cell \in Cells(Z) : \A t \in tiles :
                        InCore(t, cell[1], cell[2]) =>
                            raw[cell[1]][cell[2]] = TileCell(t, cell[1], cell[2])

\* Four chunks, all computed: the 7x7 grid cut at row 4 and column 4.
C7_Witness ==
    /\ ChunkedDone
    /\ Rows(Z) = MaxDim /\ Cols(Z) = MaxDim
    /\ Cardinality(computed) = 4
    /\ ~IsConstant(Z)
    /\ \A cell \in Cells(Z) : writes[cell[1]][cell[2]] = 1

\* The window the sequential traversal would read at (r, c) under reflect
\* padding: the k-th sample beyond an edge is the sample k - 1 inside it.
ReflectFootprint(A, r, c, size) ==
    LET h == size \div 2
    IN  [k \in 1..(size * size) |->
            A[ReflectIndex(r - h + ((k - 1) \div size), Rows(A))]
             [ReflectIndex(c - h + ((k - 1) % size), Cols(A))]]

\* C8 (as the specification states it): the window the sequential traversal
\* hands to the filter at every cell is the reflect-padded window.
C8_SequentialReflects ==
    pc = "sequential" =>
        \A cell \in Cells(Z) :
            Footprint(Z, cell[1], cell[2], window_size)
                = ReflectFootprint(Z, cell[1], cell[2], window_size)

C10_DifferOnlyNearEdges ==
    ChunkedDone =>
        \A cell \in Cells(Z) :
            /\ AwayFromEdges(cell[1], cell[2]) =>
                  raw[cell[1]][cell[2]] = FilterAt(Z, cell[1], cell[2])
            /\ ~InFringe(cell[1], cell[2]) =>
                  /\ AwayFromEdges(cell[1], cell[2])
                  /\ result[cell[1]][cell[2]] = raw[cell[1]][cell[2]]

\* A 7x7 rough grid cut into four chunks, W = 5: the two traversals differ
\* at the corner and agree on the seam cell (3, 3).
C10_Witness ==
    /\ ChunkedDone
    /\ Rows(Z) = MaxDim /\ Cols(Z) = MaxDim
    /\ window_size = 5
    /\ Cardinality(computed) = 4
    /\ result[3][3] # NaN
    /\ raw[0][0] # FilterAt(Z, 0, 0)
====
